---------------------------- MODULE Spec2Model ----------------------------
(***************************************************************************)
(* generate_graphs.py: the driver (main), the loader (load_data) and the   *)
(* six chart builders, with the series each builder derives from the       *)
(* benchmark table.                                                        *)
(*                                                                         *)
(* Numbers.  The columns are float64 and every derivation is IEEE-754      *)
(* arithmetic: each operation returns the correctly rounded result, x/0 is *)
(* inf, 0/0 and 0*inf are NaN.  The model keeps that arithmetic and its    *)
(* rounding (round to nearest, ties to even) but with a mantissa of Prec   *)
(* bits instead of 53, and with an unbounded exponent (no overflow, no     *)
(* subnormals).  All values of the program are non-negative, so there is   *)
(* no sign.                                                                *)
(***************************************************************************)
EXTENDS Integers, Sequences, FiniteSets, TLC

\* ------------------------------------------------------------------ bounds

\* Mantissa width of the modelled floating-point format (float64 has 53).
Prec == 8
\* Sizes of the rows of the enumerated tables are drawn from 1..MaxSize.
MaxSize == 4
\* The enumerated tables have 0..MaxRows rows.
MaxRows == 2
\* The generated (long) tables have MaxRows+1..MaxLongRows rows.
MaxLongRows == 31

\* ------------------------------------------------------- program constants

\* df['Search(ns)'] / 1000
NsPerUs == 1000
\* max(1, len(df) // 10)
SubsetDivisor == 10

\* ------------------------------------------------------- float arithmetic

Pow2(n) == 2 ^ n

Zero == [k |-> "fin", m |-> 0, e |-> 0]
Inf == [k |-> "inf", m |-> 0, e |-> 0]
NaN == [k |-> "nan", m |-> 0, e |-> 0]
\* A series value not computed yet.
None == [k |-> "none", m |-> 0, e |-> 0]

IsFinite(a) == a.k = "fin"
IsNaN(a) == a.k = "nan"
IsInf(a) == a.k = "inf"
IsZero(a) == a.k = "fin" /\ a.m = 0

\* The rational (n / d) * 2^e, n > 0, scaled so that 2^(Prec-1) <= n/d < 2^Prec.
RECURSIVE Scale(_, _, _)
Scale(n, d, e) ==
    IF n < d * Pow2(Prec - 1) THEN Scale(2 * n, d, e - 1)
    ELSE IF n >= d * Pow2(Prec) THEN Scale(n, 2 * d, e + 1)
    ELSE [n |-> n, d |-> d, e |-> e]

\* Round to nearest, ties to even, of the rational (n / d) * 2^e, n >= 0, d > 0.
Round(n, d, e) ==
    IF n = 0 THEN Zero
    ELSE LET s == Scale(n, d, e)
             q == s.n \div s.d
             r == s.n % s.d
             up == (2 * r > s.d) \/ (2 * r = s.d /\ q % 2 = 1)
             m == IF up THEN q + 1 ELSE q
         IN  IF m = Pow2(Prec)
             THEN [k |-> "fin", m |-> Pow2(Prec - 1), e |-> s.e + 1]
             ELSE [k |-> "fin", m |-> m, e |-> s.e]

\* int64 -> float64
FromInt(n) == Round(n, 1, 0)

\* a * b
Mul(a, b) ==
    IF IsNaN(a) \/ IsNaN(b) THEN NaN
    ELSE IF IsInf(a) \/ IsInf(b)
         THEN (IF IsZero(a) \/ IsZero(b) THEN NaN ELSE Inf)
    ELSE Round(a.m * b.m, 1, a.e + b.e)

\* a / b
Div(a, b) ==
    IF IsNaN(a) \/ IsNaN(b) THEN NaN
    ELSE IF IsInf(a) THEN (IF IsInf(b) THEN NaN ELSE Inf)
    ELSE IF IsInf(b) THEN Zero
    ELSE IF IsZero(b) THEN (IF IsZero(a) THEN NaN ELSE Inf)
    ELSE IF IsZero(a) THEN Zero
    ELSE Round(a.m, b.m, a.e - b.e)

\* a + b
Add(a, b) ==
    IF IsNaN(a) \/ IsNaN(b) THEN NaN
    ELSE IF IsInf(a) \/ IsInf(b) THEN Inf
    ELSE IF IsZero(a) THEN b
    ELSE IF IsZero(b) THEN a
    ELSE LET lo == IF a.e < b.e THEN a.e ELSE b.e
         IN  Round(a.m * Pow2(a.e - lo) + b.m * Pow2(b.e - lo), 1, lo)

\* a <= b (false when either is NaN)
Leq(a, b) ==
    IF IsNaN(a) \/ IsNaN(b) THEN FALSE
    ELSE IF IsInf(b) THEN TRUE
    ELSE IF IsInf(a) THEN FALSE
    ELSE LET lo == IF a.e < b.e THEN a.e ELSE b.e
         IN  a.m * Pow2(a.e - lo) <= b.m * Pow2(b.e - lo)

\* floor(log2(n) * 2^16) for n = 1..64
Log2Tab ==
    << 0, 65536, 103872, 131072, 152169, 169408, 183982, 196608,
       207744, 217705, 226717, 234944, 242512, 249518, 256041, 262144,
       267875, 273280, 278392, 283241, 287854, 292253, 296456, 300480,
       304339, 308048, 311616, 315054, 318372, 321577, 324678, 327680,
       330589, 333411, 336152, 338816, 341406, 343928, 346384, 348777,
       351112, 353390, 355615, 357789, 359914, 361992, 364025, 366016,
       367965, 369875, 371748, 373584, 375384, 377152, 378887, 380590,
       382264, 383908, 385524, 387113, 388676, 390214, 391727, 393216 >>

\* np.log2 of a positive integer: the correctly rounded logarithm.  The table
\* entry is exact for a power of two; otherwise log2(n) is irrational and lies
\* strictly between the entry and the entry plus one, so that the half-way
\* point rounds as log2(n) does.
Log2(n) ==
    LET t == Log2Tab[n]
        exact == t % 65536 = 0
    IN  IF exact THEN Round(t, 1, -16) ELSE Round(2 * t + 1, 1, -17)


\* ------------------------------------------------------------ the table

Columns == {"Size", "Total(ms)", "SA(ms)", "LCP(ms)", "Search(ns)", "n*log(n)"}

Charts ==
    << "overall_complexity", "sa_vs_lcp", "logarithmic_complexity",
       "search_performance", "growth_rates", "component_breakdown" >>

\* The measurements a row may hold: times in tenths of a millisecond as the
\* file prints them (1.5 is 15), the search time in nanoseconds.
Profiles ==
    << [sa |-> 10, lcp |-> 5, total |-> 15, search |-> 2000],
       [sa |-> 22, lcp |-> 10, total |-> 32, search |-> 1000],
       [sa |-> 0, lcp |-> 0, total |-> 0, search |-> 0],
       [sa |-> 9, lcp |-> 0, total |-> 9, search |-> 500] >>

\* A row of the file: the size, the measurements, and the reference value
\* size * log2(size) the harness computed.
FileRow(size, p) ==
    [Size |-> size, Total |-> p.total, SA |-> p.sa, LCP |-> p.lcp,
     Search |-> p.search, NLogN |-> Mul(FromInt(size), Log2(size))]

StrictlyIncreasing(f, n) == \A i \in 1..n : \A j \in 1..n : i < j => f[i] < f[j]

\* Every table of 0..MaxRows rows with strictly increasing sizes.
SmallTables ==
    UNION { { [i \in 1..n |-> FileRow(sz[i], Profiles[pf[i]])] :
                sz \in {f \in [1..n -> 1..MaxSize] : StrictlyIncreasing(f, n)},
                pf \in [1..n -> 1..Len(Profiles)] } :
            n \in 0..MaxRows }

\* One table of each length MaxRows+1..MaxLongRows: sizes 2, 3, ..., the
\* measurements cycling through Profiles.
LongTables ==
    { [i \in 1..n |-> FileRow(i + 1, Profiles[((i - 1) % Len(Profiles)) + 1])] :
        n \in (MaxRows + 1)..MaxLongRows }

Tables == SmallTables \cup LongTables

\* The file: the columns its header names, and its rows.
Files ==
    { [cols |-> Columns \ miss, rows |-> t] :
        miss \in {{}} \cup {{c} : c \in Columns}, t \in Tables }

NoFile == [cols |-> {}, rows |-> << >>]
NoDf == [cols |-> {}, rows |-> << >>, loaded |-> FALSE]

\* The text of a decimal time, converted to the nearest float.
ParseDecimal(tenths) == Div(FromInt(tenths), FromInt(10))

\* pd.read_csv: the columns of the header, a RangeIndex from 0, the values
\* converted.  No column is required.
ReadCsv(f) ==
    [cols |-> f.cols,
     rows |-> [i \in 1..Len(f.rows) |->
                 [idx |-> i - 1,
                  Size |-> f.rows[i].Size,
                  Total |-> ParseDecimal(f.rows[i].Total),
                  SA |-> ParseDecimal(f.rows[i].SA),
                  LCP |-> ParseDecimal(f.rows[i].LCP),
                  Search |-> FromInt(f.rows[i].Search),
                  NLogN |-> f.rows[i].NLogN]],
     loaded |-> TRUE]

NRows(d) == Len(d.rows)

\* -------------------------------------------------------- derived series

\* theoretical = (df['n*log(n)'] / df['n*log(n)'].iloc[0]) * df['Total(ms)'].iloc[0]
Theoretical(d) ==
    [i \in 1..NRows(d) |->
        Mul(Div(d.rows[i].NLogN, d.rows[1].NLogN), d.rows[1].Total)]

\* ratio = df['SA(ms)'] / df['LCP(ms)']
Ratio(d) == [i \in 1..NRows(d) |-> Div(d.rows[i].SA, d.rows[i].LCP)]

RECURSIVE Sum(_)
Sum(s) == IF Len(s) = 0 THEN Zero ELSE Add(Sum(SubSeq(s, 1, Len(s) - 1)), s[Len(s)])

NotNaN(v) == ~IsNaN(v)

\* Mean with the NaN values kept in the sum (skipna forgotten).
MeanKeepNaN(s) == IF Len(s) = 0 THEN NaN ELSE Div(Sum(s), FromInt(Len(s)))

\* ratio.mean(): pandas leaves the NaN values out (skipna), and gives NaN when
\* nothing is left; inf is a value like another.
Mean(s) ==
    LET kept == SelectSeq(s, NotNaN)
    IN  IF Len(kept) = 0 THEN NaN ELSE Div(Sum(kept), FromInt(Len(kept)))

\* YN anchored on the last row's size instead of the first's.
YNAnchoredLast(d) ==
    [i \in 1..NRows(d) |->
        Div(Mul(FromInt(d.rows[i].Size), d.rows[1].Total),
            FromInt(d.rows[NRows(d)].Size))]

\* y_n = x * df['Total(ms)'].iloc[0] / df['Size'].iloc[0]
YN(d) ==
    [i \in 1..NRows(d) |->
        Div(Mul(FromInt(d.rows[i].Size), d.rows[1].Total), FromInt(d.rows[1].Size))]

\* y_nlogn = x * np.log2(x) * df['Total(ms)'].iloc[0]
\*             / (df['Size'].iloc[0] * np.log2(df['Size'].iloc[0]))
YNLogN(d) ==
    [i \in 1..NRows(d) |->
        Div(Mul(Mul(FromInt(d.rows[i].Size), Log2(d.rows[i].Size)), d.rows[1].Total),
            Mul(FromInt(d.rows[1].Size), Log2(d.rows[1].Size)))]

\* search_us = df['Search(ns)'] / 1000
SearchUs(d) == [i \in 1..NRows(d) |-> Div(d.rows[i].Search, FromInt(NsPerUs))]

\* TheoreticalLogN anchored on the first row instead of the last.
TheoreticalLogNFirst(d) ==
    LET us == [i \in 1..NRows(d) |-> Div(d.rows[i].Search, FromInt(NsPerUs))]
    IN  [i \in 1..NRows(d) |->
            Mul(Log2(d.rows[i].Size), Div(us[1], Log2(d.rows[1].Size)))]

\* theoretical_logn = np.log2(df['Size'])
\*                      * (search_us.iloc[-1] / np.log2(df['Size'].iloc[-1]))
TheoreticalLogN(d) ==
    LET n == NRows(d)
        us == SearchUs(d)
    IN  [i \in 1..n |->
            Mul(Log2(d.rows[i].Size), Div(us[n], Log2(d.rows[n].Size)))]

\* size_ratios = df['Size'].iloc[1:].values / df['Size'].iloc[:-1].values
SizeRatios(d) ==
    [i \in 1..(NRows(d) - 1) |->
        Div(FromInt(d.rows[i + 1].Size), FromInt(d.rows[i].Size))]

\* time_ratios = df['Total(ms)'].iloc[1:].values / df['Total(ms)'].iloc[:-1].values
TimeRatios(d) ==
    [i \in 1..(NRows(d) - 1) |-> Div(d.rows[i + 1].Total, d.rows[i].Total)]

\* ExpectedRatio with the two rows exchanged.
ExpectedRatioInverted(n1, n2) ==
    Div(Mul(FromInt(n1), Log2(n1)), Mul(FromInt(n2), Log2(n2)))

\* ratio = (n2 * np.log2(n2)) / (n1 * np.log2(n1)), n1 and n2 the sizes of
\* rows i-1 and i
ExpectedRatio(n1, n2) ==
    Div(Mul(FromInt(n2), Log2(n2)), Mul(FromInt(n1), Log2(n1)))

\* for i in range(1, len(df)): theoretical_ratios.append(ratio)
TheoreticalRatios(d) ==
    [i \in 1..(NRows(d) - 1) |-> ExpectedRatio(d.rows[i].Size, d.rows[i + 1].Size)]

\* Step rounding the quotient up instead of down.
StepCeil(n) ==
    IF (n + SubsetDivisor - 1) \div SubsetDivisor > 1
    THEN (n + SubsetDivisor - 1) \div SubsetDivisor
    ELSE 1

\* step = max(1, len(df) // 10)
Step(n) == IF n \div SubsetDivisor > 1 THEN n \div SubsetDivisor ELSE 1

\* DfSubset without the step: every row.
DfSubsetAll(d) == d.rows

\* DfSubset starting at position step instead of 0.
DfSubsetFromStep(d) ==
    LET n == NRows(d)
        st == IF n \div SubsetDivisor > 1 THEN n \div SubsetDivisor ELSE 1
    IN  [j \in 1..((n - 1) \div st) |-> d.rows[j * st + 1]]

\* df_subset = df.iloc[::step]: the rows at positions 0, step, 2*step, ...
DfSubset(d) ==
    LET n == NRows(d)
        st == Step(n)
        cnt == (n + st - 1) \div st
    IN  [j \in 1..cnt |-> d.rows[(j - 1) * st + 1]]

\* ------------------------------------------------------------- the state

VARIABLES
    pc,                 \* where main is
    exists,             \* os.path.exists(csv_path)
    csv,                \* the file at csv_path
    df,                 \* the loaded table
    written,            \* the charts saved under output_dir
    error,              \* the exception that ended the run, or "none"
    theoretical,        \* plot_overall_complexity
    ratio,              \* plot_sa_vs_lcp
    ratio_mean,         \* plot_sa_vs_lcp: ratio.mean()
    y_n,                \* plot_logarithmic_scale
    y_nlogn,            \* plot_logarithmic_scale
    search_us,          \* plot_search_performance
    theoretical_logn,   \* plot_search_performance
    size_ratios,        \* plot_growth_rates
    time_ratios,        \* plot_growth_rates
    theoretical_ratios, \* plot_growth_rates
    df_subset           \* plot_component_breakdown

series ==
    << theoretical, ratio, ratio_mean, y_n, y_nlogn, search_us, theoretical_logn,
       size_ratios, time_ratios, theoretical_ratios, df_subset >>

vars == << pc, exists, csv, df, written, error, series >>

Init ==
    /\ pc = "main"
    /\ exists \in BOOLEAN
    /\ csv \in (IF exists THEN Files ELSE {NoFile})
    /\ df = NoDf
    /\ written = {}
    /\ error = "none"
    /\ theoretical = << >>
    /\ ratio = << >>
    /\ ratio_mean = None
    /\ y_n = << >>
    /\ y_nlogn = << >>
    /\ search_us = << >>
    /\ theoretical_logn = << >>
    /\ size_ratios = << >>
    /\ time_ratios = << >>
    /\ theoretical_ratios = << >>
    /\ df_subset = << >>

\* An exception nobody catches ends the run where it is raised.
Raise(exc) ==
    /\ pc' = "raised"
    /\ error' = exc
    /\ UNCHANGED << exists, csv, df, written, series >>

\* plt.savefig(f'{output_dir}/<chart>.png'), then the next statement of main.
Saved(chart, next) ==
    /\ written' = written \cup {chart}
    /\ pc' = next
    /\ UNCHANGED << exists, csv, df, error >>

\* main without the check of the file.
MainNoCheck(e) == "load_data"

\* if not os.path.exists(csv_path): print(...); return
MainCheckTarget(e) == IF e THEN "load_data" ELSE "returned"

main ==
    /\ pc = "main"
    /\ pc' = MainCheckTarget(exists)
    /\ UNCHANGED << exists, csv, df, written, error, series >>

\* df = load_data(csv_path)
load_data ==
    /\ pc = "load_data"
    /\ IF ~exists
       THEN Raise("FileNotFoundError")
       ELSE /\ df' = ReadCsv(csv)
            /\ pc' = "plot_overall_complexity"
            /\ UNCHANGED << exists, csv, written, error, series >>

\* plot_overall_complexity without its theoretical curve.
ColsOverallNoReference == {"Size", "Total(ms)", "SA(ms)", "LCP(ms)"}
\* plot_search_performance without the read of the search time.
ColsSearchLate == {"Size"}

\* The columns each chart builder reads before it saves its chart.
ColsOverall == {"Size", "Total(ms)", "SA(ms)", "LCP(ms)", "n*log(n)"}
ColsSaVsLcp == {"Size", "SA(ms)", "LCP(ms)"}
ColsLogarithmic == {"Size", "Total(ms)", "SA(ms)", "LCP(ms)"}
ColsSearch == {"Search(ns)", "Size"}
ColsGrowth == {"Size", "Total(ms)"}
ColsBreakdown == {"SA(ms)", "LCP(ms)", "Size"}

\* df[<column>] of a column the table lacks raises KeyError.
HasCols(d, cols) == cols \subseteq d.cols

plot_overall_complexity ==
    /\ pc = "plot_overall_complexity"
    /\ IF ~HasCols(df, ColsOverall) THEN Raise("KeyError")
       ELSE IF NRows(df) = 0 THEN Raise("IndexError")
       ELSE /\ theoretical' = Theoretical(df)
            /\ Saved("overall_complexity", "plot_sa_vs_lcp")
            /\ UNCHANGED << ratio, ratio_mean, y_n, y_nlogn, search_us,
                            theoretical_logn, size_ratios, time_ratios,
                            theoretical_ratios, df_subset >>

plot_sa_vs_lcp ==
    /\ pc = "plot_sa_vs_lcp"
    /\ IF ~HasCols(df, ColsSaVsLcp) THEN Raise("KeyError")
       ELSE /\ ratio' = Ratio(df)
            /\ ratio_mean' = Mean(Ratio(df))
            /\ Saved("sa_vs_lcp", "plot_logarithmic_scale")
            /\ UNCHANGED << theoretical, y_n, y_nlogn, search_us,
                            theoretical_logn, size_ratios, time_ratios,
                            theoretical_ratios, df_subset >>

plot_logarithmic_scale ==
    /\ pc = "plot_logarithmic_scale"
    /\ IF ~HasCols(df, ColsLogarithmic) THEN Raise("KeyError")
       ELSE IF NRows(df) = 0 THEN Raise("IndexError")
       ELSE /\ y_n' = YN(df)
            /\ y_nlogn' = YNLogN(df)
            /\ Saved("logarithmic_complexity", "plot_search_performance")
            /\ UNCHANGED << theoretical, ratio, ratio_mean, search_us,
                            theoretical_logn, size_ratios, time_ratios,
                            theoretical_ratios, df_subset >>

plot_search_performance ==
    /\ pc = "plot_search_performance"
    /\ IF ~HasCols(df, ColsSearch) THEN Raise("KeyError")
       ELSE IF NRows(df) = 0 THEN Raise("IndexError")
       ELSE /\ search_us' = SearchUs(df)
            /\ theoretical_logn' = TheoreticalLogN(df)
            /\ Saved("search_performance", "plot_growth_rates")
            /\ UNCHANGED << theoretical, ratio, ratio_mean, y_n, y_nlogn,
                            size_ratios, time_ratios, theoretical_ratios,
                            df_subset >>

plot_growth_rates ==
    /\ pc = "plot_growth_rates"
    /\ IF ~HasCols(df, ColsGrowth) THEN Raise("KeyError")
       ELSE /\ size_ratios' = SizeRatios(df)
            /\ time_ratios' = TimeRatios(df)
            /\ theoretical_ratios' = TheoreticalRatios(df)
            /\ Saved("growth_rates", "plot_component_breakdown")
            /\ UNCHANGED << theoretical, ratio, ratio_mean, y_n, y_nlogn,
                            search_us, theoretical_logn, df_subset >>

plot_component_breakdown ==
    /\ pc = "plot_component_breakdown"
    /\ IF ~HasCols(df, ColsBreakdown) THEN Raise("KeyError")
       ELSE /\ df_subset' = DfSubset(df)
            /\ Saved("component_breakdown", "done")
            /\ UNCHANGED << theoretical, ratio, ratio_mean, y_n, y_nlogn,
                            search_us, theoretical_logn, size_ratios,
                            time_ratios, theoretical_ratios >>

Next ==
    \/ main
    \/ load_data
    \/ plot_overall_complexity
    \/ plot_sa_vs_lcp
    \/ plot_logarithmic_scale
    \/ plot_search_performance
    \/ plot_growth_rates
    \/ plot_component_breakdown

Spec == Init /\ [][Next]_vars

\* -------------------------------------------------- words of the claims

Terminal == {"done", "returned", "raised"}
AllCharts == {Charts[i] : i \in 1..Len(Charts)}
FirstCharts(n) == {Charts[i] : i \in 1..n}
\* The required columns the file lacks.
Missing == Columns \ csv.cols
N == NRows(df)
One == FromInt(1)
IsPositive(a) == a.k = "fin" /\ a.m > 0

\* |y - t| <= 2^(1-Prec) * t: y is t up to the rounding of two operations
\* (for float64, a relative error of at most 2^-52).
Close(y, t) ==
    /\ IsFinite(y)
    /\ IsFinite(t)
    /\ LET lo == IF y.e < t.e THEN y.e ELSE t.e
           yy == y.m * Pow2(y.e - lo)
           tt == t.m * Pow2(t.e - lo)
           dist == IF yy < tt THEN tt - yy ELSE yy - tt
       IN  dist * Pow2(Prec - 1) <= tt

C2_AbsentFile ==
    ~exists =>
        /\ pc \in {"main", "returned"}
        /\ ~df.loaded
        /\ written = {}
        /\ error = "none"

\* C2, witness: a run without the file has ended.
C2_Witness == ~exists /\ pc = "returned"

\* C3, as claimed: on a complete run the series of items 1-4 and 6 have N
\* elements and the growth-rate series N-1.
C3_AllLengthsN ==
    pc = "done" =>
        /\ Len(theoretical) = N
        /\ Len(ratio) = N
        /\ Len(y_n) = N
        /\ Len(y_nlogn) = N
        /\ Len(theoretical_logn) = N
        /\ Len(df_subset) = N
        /\ Len(time_ratios) = N - 1
        /\ Len(theoretical_ratios) = N - 1

\* C3, amended: on a complete run the series of items 1-4 have N elements and
\* the growth-rate series N-1; the component-breakdown subset has ceil(N/k)
\* rows, k = max(1, floor(N/10)), which is N only when N < 20.
C3_Lengths ==
    pc = "done" =>
        LET k == IF N \div 10 >= 1 THEN N \div 10 ELSE 1
        IN  /\ Len(theoretical) = N
            /\ Len(ratio) = N
            /\ Len(y_n) = N
            /\ Len(y_nlogn) = N
            /\ Len(search_us) = N
            /\ Len(theoretical_logn) = N
            /\ Len(size_ratios) = N - 1
            /\ Len(time_ratios) = N - 1
            /\ Len(theoretical_ratios) = N - 1
            /\ Len(df_subset) = (N + k - 1) \div k
            /\ (Len(df_subset) = N) <=> (N < 20)

\* C3, witness: a complete run on a table of 20 rows or more, whose subset is
\* shorter than the table.
C3_Witness == pc = "done" /\ N >= 20 /\ Len(df_subset) < N

\* C4, as claimed: with a positive first n*log(n), the theoretical total-time
\* curve and both log-log reference curves equal total_time[0] exactly at
\* index 0.
C4_ExactAnchor ==
    (df.loaded /\ N > 0 /\ IsPositive(df.rows[1].NLogN)) =>
        /\ "overall_complexity" \in written => theoretical[1] = df.rows[1].Total
        /\ "logarithmic_complexity" \in written =>
            /\ y_n[1] = df.rows[1].Total
            /\ y_nlogn[1] = df.rows[1].Total

\* C4, amended: at index 0 the theoretical total-time curve equals
\* total_time[0] exactly when the first n*log(n) is positive; y_n equals it up
\* to the rounding of its multiplication and division; y_nlogn equals it up to
\* that rounding when size[0] >= 2 and is NaN when size[0] = 1.
C4_Anchor ==
    (df.loaded /\ N > 0) =>
        /\ ("overall_complexity" \in written /\ IsPositive(df.rows[1].NLogN)) =>
            theoretical[1] = df.rows[1].Total
        /\ "logarithmic_complexity" \in written =>
            /\ Close(y_n[1], df.rows[1].Total)
            /\ df.rows[1].Size >= 2 => Close(y_nlogn[1], df.rows[1].Total)
            /\ df.rows[1].Size = 1 => IsNaN(y_nlogn[1])

\* C4, witness: a reference curve that is a rounding away from total_time[0].
C4_Witness ==
    /\ "logarithmic_complexity" \in written
    /\ IsPositive(df.rows[1].NLogN)
    /\ theoretical[1] = df.rows[1].Total
    /\ y_n[1] # df.rows[1].Total
    /\ Close(y_n[1], df.rows[1].Total)

\* C5, as claimed: the theoretical search-time curve equals
\* search_time_ns[last] / 1000 at the last index.
C5_ExactAnchor ==
    "search_performance" \in written =>
        /\ search_us[N] = Div(df.rows[N].Search, FromInt(1000))
        /\ theoretical_logn[N] = search_us[N]

\* C5, amended: at the last index the theoretical search-time curve equals
\* search_time_ns[last] / 1000 up to the rounding of its division and
\* multiplication when size[last] >= 2, and is NaN when size[last] = 1.
C5_Anchor ==
    "search_performance" \in written =>
        /\ search_us[N] = Div(df.rows[N].Search, FromInt(1000))
        /\ df.rows[N].Size >= 2 => Close(theoretical_logn[N], search_us[N])
        /\ df.rows[N].Size = 1 => IsNaN(theoretical_logn[N])

\* C5, witness: a search-time curve a rounding away from the observed value.
C5_Witness ==
    /\ "search_performance" \in written
    /\ theoretical_logn[N] # search_us[N]
    /\ Close(theoretical_logn[N], search_us[N])

\* C6: with strictly increasing positive sizes and more than one row, every
\* expected growth ratio is >= 1.
C6_ExpectedRatioAtLeastOne ==
    "growth_rates" \in written =>
        \A i \in 1..(N - 1) : Leq(One, theoretical_ratios[i])

\* C6, witness: a growth-rate chart with a finite expected ratio.
C6_Witness ==
    /\ "growth_rates" \in written
    /\ N > 1
    /\ \E i \in 1..(N - 1) : IsFinite(theoretical_ratios[i])

\* C7, as claimed: for a table of one row the growth-rate series and the
\* component-breakdown subset are empty.
C7_SingleRowAllEmpty ==
    (N = 1 /\ "component_breakdown" \in written) =>
        /\ Len(time_ratios) = 0
        /\ Len(theoretical_ratios) = 0
        /\ Len(df_subset) = 0

\* C7, amended: for a table of one row plot_growth_rates and
\* plot_component_breakdown complete; the growth-rate series are empty and the
\* component-breakdown subset holds the one row.
C7_SingleRow ==
    (df.loaded /\ N = 1 /\ Missing = {}) =>
        /\ pc # "raised"
        /\ "growth_rates" \in written =>
            /\ Len(size_ratios) = 0
            /\ Len(time_ratios) = 0
            /\ Len(theoretical_ratios) = 0
        /\ "component_breakdown" \in written =>
            /\ Len(df_subset) = 1
            /\ df_subset[1] = df.rows[1]

\* C7, witness: a complete run on a table of one row.
C7_Witness == pc = "done" /\ N = 1 /\ Len(df_subset) = 1

C10_Subset ==
    "component_breakdown" \in written =>
        LET k == IF N \div 10 >= 1 THEN N \div 10 ELSE 1
            EveryKth(r) == r.idx % k = 0
        IN  /\ df_subset = SelectSeq(df.rows, EveryKth)
            /\ df_subset[1].idx = 0
            /\ Len(df_subset) = (N + k - 1) \div k
            /\ Len(df_subset) <= 19

\* C10, witness: a subset of 19 rows has been reached, and one taken with k > 1.
C10_Witness ==
    /\ "component_breakdown" \in written
    /\ \/ N = 19 /\ Len(df_subset) = 19
       \/ N = 29 /\ Len(df_subset) = 15

=============================================================================
